---- MODULE Spec2Model ----
(***************************************************************************)
(* A model of .github/scripts/codex-review.py: the CodexReviewer class     *)
(* (parse_diff, detect_language, analyze_file, review).                    *)
(*                                                                         *)
(* Text is modelled by TLA+ strings, which are sequences of characters:    *)
(* Len, SubSeq and \o act on them as Python's len, slicing and +.          *)
(***************************************************************************)
EXTENDS Integers, Sequences, FiniteSets, TLC

(***************************************************************************)
(* Python string primitives used by the script.                            *)
(***************************************************************************)

\* s[i] as a one-character string (1-based).
Char(s, i) == SubSeq(s, i, i)

\* s[n:] for n >= 0 (0-based slice start, as in Python).
DropFirst(s, n) == SubSeq(s, n + 1, Len(s))

\* str.startswith(p)
StartsWith(s, p) == Len(s) >= Len(p) /\ SubSeq(s, 1, Len(p)) = p

\* str.find(sep) + 1: the 1-based index of the first occurrence, 0 if none.
Find(s, sep) ==
    LET at == {i \in 1..(Len(s) - Len(sep) + 1) : SubSeq(s, i, i + Len(sep) - 1) = sep}
    IN  IF at = {} THEN 0 ELSE CHOOSE i \in at : \A j \in at : i <= j

\* str.split(sep) for a non-empty separator.
RECURSIVE Split(_, _)
Split(s, sep) ==
    LET i == Find(s, sep)
    IN  IF i = 0 THEN <<s>>
        ELSE <<SubSeq(s, 1, i - 1)>> \o Split(DropFirst(s, i + Len(sep) - 1), sep)

\* The characters Python's str.strip() and int() treat as white space, and
\* the regular-expression class \s.
Whitespace == {" ", "\t", "\n", "\r", "\f"}

Digits == {"0", "1", "2", "3", "4", "5", "6", "7", "8", "9"}

UpperCase == <<"A", "B", "C", "D", "E", "F", "G", "H", "I", "J", "K", "L", "M",
               "N", "O", "P", "Q", "R", "S", "T", "U", "V", "W", "X", "Y", "Z">>

LowerCase == <<"a", "b", "c", "d", "e", "f", "g", "h", "i", "j", "k", "l", "m",
               "n", "o", "p", "q", "r", "s", "t", "u", "v", "w", "x", "y", "z">>

\* The regular-expression class \w (ASCII part).
WordChars ==
    {UpperCase[i] : i \in 1..26} \cup {LowerCase[i] : i \in 1..26} \cup Digits \cup {"_"}

\* str.strip(): leading and trailing white space removed.
RECURSIVE LStrip(_)
LStrip(s) ==
    IF Len(s) > 0 /\ Char(s, 1) \in Whitespace THEN LStrip(DropFirst(s, 1)) ELSE s

RECURSIVE RStrip(_)
RStrip(s) ==
    IF Len(s) > 0 /\ Char(s, Len(s)) \in Whitespace
    THEN RStrip(SubSeq(s, 1, Len(s) - 1)) ELSE s

Strip(s) == RStrip(LStrip(s))

\* str.lower() (ASCII letters).
LowerChar(c) ==
    IF \E i \in 1..26 : UpperCase[i] = c
    THEN LowerCase[CHOOSE i \in 1..26 : UpperCase[i] = c]
    ELSE c

RECURSIVE Lower(_)
Lower(s) == IF Len(s) = 0 THEN s ELSE LowerChar(Char(s, 1)) \o Lower(DropFirst(s, 1))

DigitValue(c) ==
    CASE c = "0" -> 0 [] c = "1" -> 1 [] c = "2" -> 2 [] c = "3" -> 3 [] c = "4" -> 4
      [] c = "5" -> 5 [] c = "6" -> 6 [] c = "7" -> 7 [] c = "8" -> 8 [] c = "9" -> 9

\* The digit string of an int() literal: decimal digits, single underscores
\* allowed between digits.
IsDigitString(d) ==
    /\ Len(d) > 0
    /\ Char(d, 1) \in Digits
    /\ Char(d, Len(d)) \in Digits
    /\ \A i \in 1..Len(d) : Char(d, i) \in Digits \cup {"_"}
    /\ \A i \in 1..(Len(d) - 1) : ~(Char(d, i) = "_" /\ Char(d, i + 1) = "_")

RECURSIVE DigitsValue(_, _)
DigitsValue(d, acc) ==
    IF Len(d) = 0 THEN acc
    ELSE DigitsValue(DropFirst(d, 1),
                     IF Char(d, 1) = "_" THEN acc ELSE 10 * acc + DigitValue(Char(d, 1)))

\* int(s): white space stripped, an optional sign, then the digit string.
\* IntParses(s) is FALSE where int(s) raises ValueError.
IntBody(s) ==
    LET t == Strip(s)
    IN  IF Len(t) > 0 /\ Char(t, 1) \in {"+", "-"} THEN DropFirst(t, 1) ELSE t

IntParses(s) == IsDigitString(IntBody(s))

IntValue(s) ==
    LET t == Strip(s)
        v == DigitsValue(IntBody(s), 0)
    IN  IF Len(t) > 0 /\ Char(t, 1) = "-" THEN 0 - v ELSE v

(***************************************************************************)
(* The part of Python's re the catalog uses: a pattern is a sequence of    *)
(* atoms, each a character class with a quantifier (one, *, +).            *)
(***************************************************************************)

\* Whether character c is in class k ("lit" carries its character).
InClass(atom, c) ==
    CASE atom.k = "lit"   -> c = atom.c
      [] atom.k = "space" -> c \in Whitespace            \* \s
      [] atom.k = "word"  -> c \in WordChars             \* \w
      [] atom.k = "any"   -> c # "\n"                    \* .
      [] atom.k = "notclose" -> c # "}"                  \* [^}]

\* A literal string as a pattern.
Lit(str) == [i \in 1..Len(str) |-> [k |-> "lit", c |-> Char(str, i), q |-> "1"]]

Cls(kind, quant) == <<[k |-> kind, c |-> "", q |-> quant]>>

\* Positions reachable from position p by zero or more characters of the class.
RunFrom(atom, s, p) ==
    {e \in p..(Len(s) + 1) : \A i \in p..(e - 1) : InClass(atom, Char(s, i))}

\* One step of the simulation: from the set of positions P before the atom
\* to the set of positions after it.
StepAtom(atom, s, P) ==
    LET one == {p + 1 : p \in {x \in P : x <= Len(s) /\ InClass(atom, Char(s, x))}}
    IN  CASE atom.q = "1" -> one
          [] atom.q = "*" -> UNION {RunFrom(atom, s, p) : p \in P}
          [] atom.q = "+" -> UNION {RunFrom(atom, s, p) : p \in one}

RECURSIVE MatchFrom(_, _, _, _)
MatchFrom(pat, j, s, P) ==
    IF P = {} THEN FALSE
    ELSE IF j > Len(pat) THEN TRUE
    ELSE MatchFrom(pat, j + 1, s, StepAtom(pat[j], s, P))

\* re.search(pattern, s) is not None: a match starting at any position.
Search(pat, s) == MatchFrom(pat, 1, s, 1..(Len(s) + 1))

(***************************************************************************)
(* CodexReviewer.PATTERNS: language -> categories in order, each with its  *)
(* rules in order.                                                         *)
(***************************************************************************)

Rule(pat, msg) == [pattern |-> pat, message |-> msg]

PATTERNS ==
    [rust |-> <<
        [category |-> "best_practices", rules |-> <<
            Rule(Lit("unwrap()"),
                 "Consider using proper error handling instead of unwrap()"),
            Rule(Lit("println!") \o Cls("space", "*") \o Lit("("),
                 "Prefer logging over println! for production code"),
            Rule(Lit("Vec::new().push("),
                 "Use Vec::with_capacity() when size is known"),
            Rule(Lit(".clone()"),
                 "Avoid unnecessary clones, consider references") >>],
        [category |-> "bugs", rules |-> <<
            Rule(Lit("panic!"),
                 "Avoid panic! in production code, use Result<T, E>"),
            Rule(Lit("expect("),
                 "Replace expect() with proper error handling"),
            Rule(Lit("unsafe") \o Cls("space", "1"),
                 "Unsafe block detected - ensure it's necessary and safe") >>],
        [category |-> "security", rules |-> <<
            Rule(Lit("println!") \o Cls("space", "*") \o Lit("(") \o Cls("any", "*")
                     \o Lit("password"),
                 "Don't log passwords or sensitive data"),
            Rule(Lit("dbg!") \o Cls("space", "*") \o Lit("(") \o Cls("any", "*")
                     \o Lit("password"),
                 "Don't include passwords in debug output"),
            Rule(Lit("env!") \o Cls("space", "*") \o Lit("(") \o Cls("any", "+")
                     \o Cls("any", "1") \o Lit("+") \o Cls("any", "1") \o Lit("+"),
                 "Be careful with string concatenation in commands") >>] >>,
     go |-> <<
        [category |-> "best_practices", rules |-> <<
            Rule(Lit("fmt.Print") \o Cls("word", "*") \o Lit("("),
                 "Use logging instead of fmt.Print"),
            Rule(Lit("[]byte(string)"),
                 "Use []byte(string) - more idiomatic"),
            Rule(Lit("if err != nil {") \o Cls("notclose", "+") \o Lit("}"),
                 "Consider wrapping with if err == nil") >>],
        [category |-> "bugs", rules |-> <<
            Rule(Lit("defer") \o Cls("space", "+") \o Cls("word", "+") \o Lit("()"),
                 "Check for errors before defer"),
            Rule(Lit("range") \o Cls("space", "+") \o Cls("word", "+") \o Lit("()")
                     \o Cls("space", "+") \o Lit("{"),
                 "Ensure range limit is checked") >>],
        [category |-> "security", rules |-> <<
            Rule(Lit("fmt.Sprint") \o Cls("any", "*") \o Lit("password"),
                 "Don't include passwords in formatted strings"),
            Rule(Lit("os.Exec") \o Cls("any", "*") \o Lit("+") \o Cls("any", "*")
                     \o Lit("password"),
                 "Don't concatenate passwords in commands") >>] >>]

\* Mutant of PatternsFor: the Rust rules serve as the default.
PatternsFor_default_rust(language) ==
    IF language \in DOMAIN PATTERNS THEN PATTERNS[language] ELSE PATTERNS.rust

\* self.PATTERNS.get(language, {}): the empty mapping for a language with no entry.
PatternsFor(language) ==
    IF language \in DOMAIN PATTERNS THEN PATTERNS[language] ELSE <<>>

(***************************************************************************)
(* detect_language                                                         *)
(***************************************************************************)

\* Path(filename).suffix for a name without a directory part: the text from
\* the last dot, unless that dot is the first or the last character.
PathSuffix(filename) ==
    LET name == IF filename = "." THEN "" ELSE filename
        dots == {i \in 1..Len(name) : Char(name, i) = "."}
        last == CHOOSE i \in dots : \A j \in dots : j <= i
    IN  IF dots = {} THEN ""
        ELSE IF 1 < last /\ last < Len(name) THEN SubSeq(name, last, Len(name))
        ELSE ""

lang_map ==
    [ext \in {".rs", ".go", ".py", ".js", ".ts", ".java"} |->
        CASE ext = ".rs" -> "rust"
          [] ext = ".go" -> "go"
          [] ext = ".py" -> "python"
          [] ext = ".js" -> "javascript"
          [] ext = ".ts" -> "typescript"
          [] ext = ".java" -> "java"]

detect_language(filename) ==
    LET ext == Lower(PathSuffix(filename))
    IN  IF ext \in DOMAIN lang_map THEN lang_map[ext] ELSE "generic"

(***************************************************************************)
(* The files dict of parse_diff: Python dicts keep insertion order, and an *)
(* assignment to a key that is present keeps the key's place.              *)
(***************************************************************************)

HasKey(d, key) == \E i \in 1..Len(d) : d[i].key = key

KeyIndex(d, key) == CHOOSE i \in 1..Len(d) : d[i].key = key

\* d[key]
Get(d, key) == d[KeyIndex(d, key)].hunks

\* Mutant of DictSet: an assignment moves the key to the end of the order.
DictSet_move_to_end(d, key, value) ==
    Append(SelectSeq(d, LAMBDA e : e.key # key), [key |-> key, hunks |-> value])

\* d[key] = value
DictSet(d, key, value) ==
    IF HasKey(d, key)
    THEN [d EXCEPT ![KeyIndex(d, key)].hunks = value]
    ELSE Append(d, [key |-> key, hunks |-> value])

\* current_file is None (the empty tuple here) or a one-element tuple holding
\* the name; `if current_file` is false for None and for the empty string.
None == <<>>

Truthy(cur) == cur # None /\ cur[1] # ""

(***************************************************************************)
(* parse_diff, one iteration of its loop over content.split('\n').         *)
(***************************************************************************)

IsFileHeader(line) == StartsWith(line, "diff --git")

IsHunkHeader(line) == StartsWith(line, "@@")

\* line.split(' ')[2] exists (otherwise IndexError).
HasPathToken(line) == Len(Split(line, " ")) >= 3

\* line.split(' ')[2].split('/')[-1]
BaseName(line) ==
    LET parts == Split(Split(line, " ")[3], "/")
    IN  parts[Len(parts)]

\* Mutant of StartEntry: files.setdefault(current_file, []), which keeps the
\* hunks of a name that is present.
StartEntry_keep(d, name) ==
    IF HasKey(d, name) THEN d ELSE Append(d, [key |-> name, hunks |-> <<>>])

\* files[current_file] = []
StartEntry(d, name) == DictSet(d, name, <<>>)

\* line.split('@@')[1].split(',')[0][1:], the text handed to int().
LineStartText(line) == DropFirst(Split(Split(line, "@@")[2], ",")[1], 1)

NewHunk(cur, line) ==
    [file |-> cur, line_start |-> IntValue(LineStartText(line)), content |-> <<>>]

\* files[current_file].append(hunk)
AppendHunk(d, cur, hunk) == DictSet(d, cur, Append(Get(d, cur), hunk))

\* files[current_file][-1]['content'].append(line)
AppendContent(d, cur, line) ==
    LET hs == Get(d, cur)
    IN  DictSet(d, cur, [hs EXCEPT ![Len(hs)].content = Append(@, line)])

(***************************************************************************)
(* analyze_file, the body of its loop over a hunk's content.               *)
(***************************************************************************)

\* The (category, pattern, message) triples in the order of the two loops
\* "for category, pattern_list in patterns.items(): for pattern, message in
\* pattern_list".
RECURSIVE FlattenRules(_)
FlattenRules(patterns) ==
    IF Len(patterns) = 0 THEN <<>>
    ELSE [i \in 1..Len(patterns[1].rules) |->
             [category |-> patterns[1].category,
              pattern  |-> patterns[1].rules[i].pattern,
              message  |-> patterns[1].rules[i].message]]
         \o FlattenRules(Tail(patterns))

Finding(name, num, rule, line) ==
    [severity |-> "warning",
     category |-> rule.category,
     file     |-> name,
     line     |-> num,
     message  |-> rule.message,
     code     |-> Strip(DropFirst(line, 1))]

\* Mutant of LineFindings: the rule loops stop at the first match.
LineFindings_first_match(name, patterns, num, line) ==
    LET rules == FlattenRules(patterns)
        Hit(rule) == Search(rule.pattern, DropFirst(line, 1))
        hits == SelectSeq(rules, Hit)
    IN  IF Len(hits) = 0 THEN <<>> ELSE <<Finding(name, num, hits[1], line)>>

\* The findings one added line appends, in rule order: one per rule whose
\* pattern re.search finds in line[1:].
LineFindings(name, patterns, num, line) ==
    LET rules == FlattenRules(patterns)
        Hit(rule) == Search(rule.pattern, DropFirst(line, 1))
        hits == SelectSeq(rules, Hit)
    IN  [i \in 1..Len(hits) |-> Finding(name, num, hits[i], line)]

\* line.startswith(('+', '-', '@@'))
IsMarked(line) == StartsWith(line, "+") \/ StartsWith(line, "-") \/ StartsWith(line, "@@")

\* Mutant of IsAdded: the inner test is dropped, every marked line is matched.
IsAdded_any_marker(line) == StartsWith(line, "+") \/ StartsWith(line, "-")

\* line.startswith('+')
IsAdded(line) == StartsWith(line, "+")

(***************************************************************************)
(* The diff texts the model is run on: every text of at most MaxLines      *)
(* lines over LinePool, and the texts of Scenarios.                        *)
(***************************************************************************)

MaxLines == 3

MaxReviewers == 2

MaxRuns == 2

LinePool ==
    { "diff --git a/src/x.rs b/src/x.rs",
      "diff --git",
      "@@ -3,2 +10,3 @@",
      "@@ garbage @@",
      "+v.unwrap().clone()",
      "-v.unwrap()",
      " v.unwrap()" }

RECURSIVE Join(_)
Join(ls) ==
    IF Len(ls) = 0 THEN ""
    ELSE IF Len(ls) = 1 THEN ls[1]
    ELSE ls[1] \o "\n" \o Join(Tail(ls))

\* A hunk with added and context lines.
HunkWithContext ==
    <<"diff --git a/src/x.rs b/src/x.rs", "@@ -8,3 +10,3 @@",
      "+foo.unwrap()", " bar", "+baz.unwrap()">>

\* A removed, a context and an added line that hold a rule's pattern.
RemovedAndContext ==
    <<"diff --git a/src/x.rs b/src/x.rs", "@@ -3,2 +10,3 @@",
      "-v.unwrap()", " v.unwrap()", "+v.unwrap().clone()">>

\* A Rust file and a Python file with the same added line.
RustAndPython ==
    <<"diff --git a/src/x.rs b/src/x.rs", "@@ -3,2 +10,3 @@", "+v.unwrap().clone()",
      "diff --git a/tools/m.py b/tools/m.py", "@@ -1,1 +1,2 @@", "+v.unwrap().clone()">>

\* Two headers with one base name, a Go file between them.
RepeatedBaseName ==
    <<"diff --git a/src/x.rs b/src/x.rs", "@@ -1,1 +1,2 @@", "+panic!(\"fail\")",
      "diff --git a/cmd/y.go b/cmd/y.go", "@@ -4,1 +4,2 @@", "+fmt.Println(password)",
      "diff --git a/lib/x.rs b/lib/x.rs", "@@ -7,1 +7,2 @@", "+let x = v.clone();">>

\* A path token with an empty base name.
EmptyBaseName == <<"diff --git a/ b/", "@@ garbage @@", "+v.unwrap()">>

\* A hunk header without a comma.
HeaderWithoutComma ==
    <<"diff --git a/src/x.rs b/src/x.rs", "@@ -1 +1 @@", "+v.unwrap()">>

\* An upper-case extension, two hunks, rules of several categories on one
\* line, a section heading after the hunk header, a final newline.
SeveralCategories ==
    <<"diff --git a/N.RS b/N.RS", "@@ -1,1 +1,2 @@ fn main()",
      "+  println!(\"{}\", password);", "-old.clone()",
      "@@ -20,2 +21,2 @@", "+unsafe { x.expect(\"e\") }", "">>

Scenarios ==
    {HunkWithContext, RemovedAndContext, RustAndPython, RepeatedBaseName,
     EmptyBaseName, HeaderWithoutComma, SeveralCategories}

Texts ==
    {Join(ls) : ls \in UNION {[1..n -> LinePool] : n \in 0..MaxLines}}
        \cup {Join(ls) : ls \in Scenarios}

(***************************************************************************)
(* State.                                                                  *)
(***************************************************************************)

VARIABLES
    diff_file,      \* the file self.diff_file names: [exists, text]
    issues,         \* issues[r]: self.issues of CodexReviewer object r
    results,        \* what the calls of review() returned, in order; the
                    \* 'issues' of a result is the list object self.issues of
                    \* its reviewer, so it is held here by reference
    raised,         \* the exception that left review(), "none" if none
    pc,             \* where the running review() is
    self,           \* the object review() runs on (0: none)
    lines,          \* parse_diff: content.split('\n')
    idx,            \* parse_diff: index of the line the loop is at
    files,          \* parse_diff: files
    current_file,   \* parse_diff: current_file
    fidx,           \* review: index of the item of files.items() it is at
    hidx,           \* analyze_file: index of the hunk it is at
    lidx,           \* analyze_file: index of the content line it is at
    line_num        \* analyze_file: line_num

vars == <<diff_file, issues, results, raised, pc, self, lines, idx, files,
          current_file, fidx, hidx, lidx, line_num>>

parse_vars == <<lines, idx, files, current_file>>

analyze_vars == <<fidx, hidx, lidx, line_num>>

Init ==
    /\ diff_file \in {[exists |-> TRUE, text |-> t] : t \in Texts}
                        \cup {[exists |-> FALSE, text |-> ""]}
    /\ issues = <<>>
    /\ results = <<>>
    /\ raised = "none"
    /\ pc = "idle"
    /\ self = 0
    /\ lines = <<>>
    /\ idx = 0
    /\ files = <<>>
    /\ current_file = None
    /\ fidx = 0
    /\ hidx = 0
    /\ lidx = 0
    /\ line_num = 0

\* The reviewers review() has been called on.
Used == {results[i].reviewer : i \in 1..Len(results)}

(***************************************************************************)
(* CodexReviewer.__init__                                                  *)
(***************************************************************************)

\* A new object with self.issues = [].  A second object is made only once
\* the first has been used: objects not yet used are interchangeable.
CodexReviewer_init ==
    /\ pc = "idle"
    /\ Len(issues) < MaxReviewers
    /\ \A r \in 1..Len(issues) : r \in Used
    /\ issues' = Append(issues, <<>>)
    /\ UNCHANGED <<diff_file, results, raised, pc, self, parse_vars, analyze_vars>>

(***************************************************************************)
(* CodexReviewer.review, with parse_diff and analyze_file inlined at their *)
(* calls.                                                                  *)
(***************************************************************************)

\* os.path.exists fails: review() returns None.
ReviewNotFound(r) ==
    /\ pc = "idle"
    /\ Len(results) < MaxRuns
    /\ ~diff_file.exists
    /\ results' = Append(results, [value |-> "None", reviewer |-> r,
                                   summary |-> 0, files_reviewed |-> 0])
    /\ UNCHANGED <<diff_file, issues, raised, pc, self, parse_vars, analyze_vars>>

\* review() up to the head of parse_diff's loop.
ReviewStart(r) ==
    /\ pc = "idle"
    /\ Len(results) < MaxRuns
    /\ diff_file.exists
    /\ pc' = "parse_diff"
    /\ self' = r
    /\ lines' = Split(diff_file.text, "\n")
    /\ idx' = 1
    /\ files' = <<>>
    /\ current_file' = None
    /\ UNCHANGED <<diff_file, issues, results, raised, analyze_vars>>

AtLine == pc = "parse_diff" /\ idx <= Len(lines)

\* if line.startswith('diff --git')
ParseFileHeader ==
    /\ AtLine
    /\ IsFileHeader(lines[idx])
    /\ IF HasPathToken(lines[idx])
       THEN /\ current_file' = <<BaseName(lines[idx])>>
            /\ files' = StartEntry(files, BaseName(lines[idx]))
            /\ idx' = idx + 1
            /\ UNCHANGED <<pc, raised>>
       ELSE /\ raised' = "IndexError"
            /\ pc' = "raised"
            /\ UNCHANGED <<current_file, files, idx>>
    /\ UNCHANGED <<diff_file, issues, results, self, lines, analyze_vars>>

\* elif current_file and line.startswith('@@')
ParseHunkHeader ==
    /\ AtLine
    /\ ~IsFileHeader(lines[idx])
    /\ Truthy(current_file) /\ IsHunkHeader(lines[idx])
    /\ IF IntParses(LineStartText(lines[idx]))
       THEN /\ files' = AppendHunk(files, current_file[1],
                                   NewHunk(current_file[1], lines[idx]))
            /\ idx' = idx + 1
            /\ UNCHANGED <<pc, raised>>
       ELSE /\ raised' = "ValueError"
            /\ pc' = "raised"
            /\ UNCHANGED <<files, idx>>
    /\ UNCHANGED <<diff_file, issues, results, self, lines, current_file, analyze_vars>>

\* elif current_file and files[current_file]
ParseContent ==
    /\ AtLine
    /\ ~IsFileHeader(lines[idx])
    /\ ~(Truthy(current_file) /\ IsHunkHeader(lines[idx]))
    /\ Truthy(current_file) /\ Get(files, current_file[1]) # <<>>
    /\ files' = AppendContent(files, current_file[1], lines[idx])
    /\ idx' = idx + 1
    /\ UNCHANGED <<diff_file, issues, results, raised, pc, self, lines, current_file,
                   analyze_vars>>

\* no branch taken
ParseSkip ==
    /\ AtLine
    /\ ~IsFileHeader(lines[idx])
    /\ ~(Truthy(current_file) /\ IsHunkHeader(lines[idx]))
    /\ ~(Truthy(current_file) /\ Get(files, current_file[1]) # <<>>)
    /\ idx' = idx + 1
    /\ UNCHANGED <<diff_file, issues, results, raised, pc, self, lines, files,
                   current_file, analyze_vars>>

\* return files; review() reaches "for filename, hunks in files.items()".
ParseReturn ==
    /\ pc = "parse_diff"
    /\ idx > Len(lines)
    /\ pc' = "review_loop"
    /\ fidx' = 1
    /\ lines' = <<>>
    /\ idx' = 0
    /\ current_file' = None
    /\ UNCHANGED <<diff_file, issues, results, raised, self, files, hidx, lidx, line_num>>

\* self.analyze_file(filename, hunks) is called for the next item.
AnalyzeFile ==
    /\ pc = "review_loop"
    /\ fidx <= Len(files)
    /\ pc' = "hunk_loop"
    /\ hidx' = 1
    /\ UNCHANGED <<diff_file, issues, results, raised, self, parse_vars, fidx, lidx,
                   line_num>>

filename == files[fidx].key

hunks == files[fidx].hunks

\* for hunk in hunks: line_num = hunk['line_start']; when the loop is
\* exhausted analyze_file returns.
AnalyzeHunk ==
    /\ pc = "hunk_loop"
    /\ IF hidx <= Len(hunks)
       THEN /\ line_num' = hunks[hidx].line_start
            /\ lidx' = 1
            /\ pc' = "line_loop"
            /\ UNCHANGED <<fidx, hidx>>
       ELSE /\ pc' = "review_loop"
            /\ fidx' = fidx + 1
            /\ hidx' = 0
            /\ UNCHANGED <<lidx, line_num>>
    /\ UNCHANGED <<diff_file, issues, results, raised, self, parse_vars>>

\* The value of line_num after the loop body has run on a line.
NextLineNum(num, line) == IF IsMarked(line) THEN num + 1 ELSE num

\* What the loop body appends to self.issues for a line.
Appended(name, num, line) ==
    IF IsMarked(line) /\ IsAdded(line)
    THEN LineFindings(name, PatternsFor(detect_language(name)), num, line)
    ELSE <<>>

\* for line in hunk['content']: one iteration; when the loop is exhausted
\* the hunk loop goes on.
AnalyzeLine ==
    /\ pc = "line_loop"
    /\ IF lidx <= Len(hunks[hidx].content)
       THEN LET line == hunks[hidx].content[lidx]
            IN  /\ issues' = [issues EXCEPT
                                 ![self] = @ \o Appended(filename, line_num, line)]
                /\ line_num' = NextLineNum(line_num, line)
                /\ lidx' = lidx + 1
                /\ UNCHANGED <<pc, hidx>>
       ELSE /\ pc' = "hunk_loop"
            /\ hidx' = hidx + 1
            /\ lidx' = 0
            /\ line_num' = 0
            /\ UNCHANGED issues
    /\ UNCHANGED <<diff_file, results, raised, self, parse_vars, fidx>>

\* result = {...}; return result
ReviewReturn ==
    /\ pc = "review_loop"
    /\ fidx > Len(files)
    /\ results' = Append(results, [value |-> "result", reviewer |-> self,
                                   summary |-> Len(issues[self]),
                                   files_reviewed |-> Len(files)])
    /\ pc' = "idle"
    /\ self' = 0
    /\ files' = <<>>
    /\ fidx' = 0
    /\ UNCHANGED <<diff_file, issues, raised, lines, idx, current_file, hidx, lidx,
                   line_num>>

Next ==
    \/ CodexReviewer_init
    \/ \E r \in 1..Len(issues) : ReviewNotFound(r)
    \/ \E r \in 1..Len(issues) : ReviewStart(r)
    \/ ParseFileHeader
    \/ ParseHunkHeader
    \/ ParseContent
    \/ ParseSkip
    \/ ParseReturn
    \/ AnalyzeFile
    \/ AnalyzeHunk
    \/ AnalyzeLine
    \/ ReviewReturn

Spec == Init /\ [][Next]_vars

(***************************************************************************)
(* What the properties below read off the diff text itself.                *)
(***************************************************************************)

TextLines == Split(diff_file.text, "\n")

AllDigits(t) == Len(t) > 0 /\ \A i \in 1..Len(t) : Char(t, i) \in Digits

RECURSIVE Decimal(_)
Decimal(t) ==
    IF Len(t) = 0 THEN 0
    ELSE 10 * Decimal(SubSeq(t, 1, Len(t) - 1)) + DigitValue(Char(t, Len(t)))

\* A range token of a hunk header: the sign, then "start,count".
IsRange(tok, sign) ==
    /\ StartsWith(tok, sign)
    /\ LET parts == Split(DropFirst(tok, 1), ",")
       IN  Len(parts) = 2 /\ AllDigits(parts[1]) /\ AllDigits(parts[2])

\* A line of the form "@@ -a,b +c,d @@", a section heading may follow.
IsUnifiedHeader(line) ==
    LET toks == Split(line, " ")
    IN  /\ Len(toks) >= 4
        /\ toks[1] = "@@"
        /\ IsRange(toks[2], "-")
        /\ IsRange(toks[3], "+")
        /\ toks[4] = "@@"

\* c of "@@ -a,b +c,d @@": the start of the new-file range.
NewFileStart(line) == Decimal(Split(DropFirst(Split(line, " ")[3], 1), ",")[1])

\* A line that starts with "@@" and is not of that form.
IsMalformedHeader(line) == IsHunkHeader(line) /\ ~IsUnifiedHeader(line)

\* The number of completed review() calls on reviewer r.
RunsOn(r) == Cardinality({i \in 1..Len(results) : results[i].reviewer = r})

\* Reviewer r has returned from its first review() and is not in another.
RanOnce(r) == RunsOn(r) = 1 /\ self # r

\* A Review Result as its reader sees it: 'issues' is the list object the
\* result refers to.
ResultView(i) ==
    [value          |-> results[i].value,
     summary        |-> results[i].summary,
     issues         |-> issues[results[i].reviewer],
     files_reviewed |-> results[i].files_reviewed]

(***************************************************************************)
(* The claims.                                                             *)
(***************************************************************************)

\* C1: within a hunk the line counter is line_start on the first content
\* line and has advanced by exactly 1 after every content line, whatever its
\* marker: at the k-th content line it is line_start + (k - 1).
C1_CounterAdvancesPerContentLine ==
    pc = "line_loop" => line_num = hunks[hidx].line_start + (lidx - 1)

\* C2: a hunk header "@@ -a,b +c,d @@" met while a current file is set opens
\* a hunk with line_start = c and an empty content.
C2_LineStartIsNewFileStart ==
    [][(AtLine /\ ~IsFileHeader(lines[idx]) /\ Truthy(current_file)
              /\ IsUnifiedHeader(lines[idx]))
        => /\ raised' = "none"
           /\ LET before == Get(files, current_file[1])
                  after  == Get(files', current_file[1])
              IN  /\ Len(after) = Len(before) + 1
                  /\ after[Len(after)].line_start = NewFileStart(lines[idx])
                  /\ after[Len(after)].content = <<>>]_vars

\* C3: a malformed hunk header met while a current file is set is ignored:
\* nothing is raised, files is unchanged and the loop goes on to the next line.
C3_MalformedHeaderIgnored ==
    [][(AtLine /\ ~IsFileHeader(lines[idx]) /\ Truthy(current_file)
              /\ IsMalformedHeader(lines[idx]))
        => /\ raised' = "none"
           /\ pc' = "parse_diff"
           /\ idx' = idx + 1
           /\ files' = files]_vars

\* C4: no exception leaves review(), whatever the diff text.
C4_NoExceptionCrosses == raised = "none" /\ pc # "raised"

\* C5: all the results review() has returned for the diff text are equal, on
\* one reviewer or on several, and stay as they were returned.
C5_Idempotent ==
    \A i, j \in 1..Len(results) : ResultView(i) = ResultView(j)

(***************************************************************************)
(* The diff text by position, for C6 to C10: L is the sequence of the      *)
(* text's lines and p the index of one of them.                            *)
(***************************************************************************)

Max(S) == CHOOSE x \in S : \A y \in S : y <= x

Min(S) == CHOOSE x \in S : \A y \in S : x <= y

Contains(s, needle) == Find(s, needle) > 0

HeaderPositions(L) == {h \in 1..Len(L) : IsFileHeader(L[h])}

\* The base names of the text's file headers.
HeaderNames(L) == {BaseName(L[h]) : h \in HeaderPositions(L)}

\* The last file header before line p (0: none).
Governing(L, p) ==
    LET hs == {h \in 1..(p - 1) : IsFileHeader(L[h])}
    IN  IF hs = {} THEN 0 ELSE Max(hs)

NameAt(L, p) == BaseName(L[Governing(L, p)])

\* The last "@@" line between that header and line p (0: none).
OpeningHunk(L, p) ==
    LET qs == {q \in (Governing(L, p) + 1)..(p - 1) : IsHunkHeader(L[q])}
    IN  IF qs = {} THEN 0 ELSE Max(qs)

\* Line p is a content line of a hunk that follows the last header of its
\* file's base name.
Live(L, p) ==
    /\ Governing(L, p) > 0
    /\ ~IsFileHeader(L[p]) /\ ~IsHunkHeader(L[p])
    /\ NameAt(L, p) # ""
    /\ OpeningHunk(L, p) > 0
    /\ \A h \in (p + 1)..Len(L) :
           IsFileHeader(L[h]) => BaseName(L[h]) # NameAt(L, p)

FirstHeader(L, name) == Min({h \in HeaderPositions(L) : BaseName(L[h]) = name})

RulesAt(L, p) == FlattenRules(PatternsFor(detect_language(NameAt(L, p))))

\* The matches of the text: <<p, k>> for a live added line p and a rule k of
\* its file's language whose pattern is found in it.
Matches(L) ==
    UNION { {<<p, k>> : k \in {k \in 1..Len(RulesAt(L, p)) :
                                  Search(RulesAt(L, p)[k].pattern, DropFirst(L[p], 1))}}
            : p \in {p \in 1..Len(L) : Live(L, p) /\ StartsWith(L[p], "+")} }

\* Discovery order: the file's first header, then the hunk, then the line,
\* then the rule.
SortKey(L, e) == <<FirstHeader(L, NameAt(L, e[1])), OpeningHunk(L, e[1]), e[1], e[2]>>

LexLess(a, b) ==
    \E i \in 1..4 : a[i] < b[i] /\ \A j \in 1..(i - 1) : a[j] = b[j]

RECURSIVE Sorted(_, _)
Sorted(L, S) ==
    IF S = {} THEN <<>>
    ELSE LET m == CHOOSE e \in S :
                      \A f \in S : f = e \/ LexLess(SortKey(L, e), SortKey(L, f))
         IN  <<m>> \o Sorted(L, S \ {m})

ExpectedOrder(L) ==
    LET es == Sorted(L, Matches(L))
    IN  [i \in 1..Len(es) |->
            [file     |-> NameAt(L, es[i][1]),
             category |-> RulesAt(L, es[i][1])[es[i][2]].category,
             message  |-> RulesAt(L, es[i][1])[es[i][2]].message,
             code     |-> Strip(DropFirst(L[es[i][1]], 1))]]

Observed(r) ==
    [i \in 1..Len(issues[r]) |->
        [file     |-> issues[r][i].file,
         category |-> issues[r][i].category,
         message  |-> issues[r][i].message,
         code     |-> issues[r][i].code]]

RustRules == FlattenRules(PATTERNS.rust)

\* The file name ends in .rs or .go, in any case, after at least one character.
HasCatalogExtension(name) ==
    /\ Len(name) > 3
    /\ Lower(SubSeq(name, Len(name) - 2, Len(name))) \in {".rs", ".go"}

\* The content line analyze_file's loop is at.
AtContentLine == pc = "line_loop" /\ lidx <= Len(hunks[hidx].content)

\* The content line the loop has just left.
PastContentLine == pc = "line_loop" /\ lidx > 1

\* Some rule of the file's language is found in the line, marker stripped.
MatchesSomeRule(name, line) ==
    /\ detect_language(name) = "rust"
    /\ \E k \in 1..Len(RustRules) : Search(RustRules[k].pattern, DropFirst(line, 1))

\* C6: self.issues grows only while the loop is at a content line whose first
\* character is '+'; removed and context lines append nothing.
C6_OnlyAddedLinesProduceFindings ==
    [][\A r \in 1..Len(issues) :
          issues'[r] # issues[r]
              => /\ r = self
                 /\ AtContentLine
                 /\ StartsWith(hunks[hidx].content[lidx], "+")]_vars

\* A removed line and then a context line, both holding a rule's pattern,
\* have been passed and nothing was appended.
C6_Witness ==
    /\ pc = "line_loop" /\ lidx > 2
    /\ StartsWith(hunks[hidx].content[lidx - 2], "-")
    /\ StartsWith(hunks[hidx].content[lidx - 1], " ")
    /\ MatchesSomeRule(filename, hunks[hidx].content[lidx - 2])
    /\ MatchesSomeRule(filename, hunks[hidx].content[lidx - 1])
    /\ issues[self] = <<>>

\* An added line of a Rust file that holds ".unwrap()" and ".clone()" and
\* matches exactly two rules.
IsUnwrapCloneLine(name, line) ==
    /\ StartsWith(line, "+")
    /\ detect_language(name) = "rust"
    /\ Contains(DropFirst(line, 1), ".unwrap()")
    /\ Contains(DropFirst(line, 1), ".clone()")
    /\ Cardinality({k \in 1..Len(RustRules) :
           Search(RustRules[k].pattern, DropFirst(line, 1))}) = 2

\* What the step appends to the running reviewer's issues.
NewFindings == SubSeq(issues'[self], Len(issues[self]) + 1, Len(issues'[self]))

\* C7 as stated: such a line appends exactly two findings with the same file
\* and line, different categories and different messages.
C7_TwoFindingsTwoCategories ==
    [][(AtContentLine /\ IsUnwrapCloneLine(filename, hunks[hidx].content[lidx]))
        => /\ Len(NewFindings) = 2
           /\ NewFindings[1].file = NewFindings[2].file
           /\ NewFindings[1].line = NewFindings[2].line
           /\ NewFindings[1].category # NewFindings[2].category
           /\ NewFindings[1].message # NewFindings[2].message]_vars

\* C7 (amended): such a line appends exactly two findings with the same file
\* and line and different messages, both of category best_practices.
C7_TwoFindingsOneCategory ==
    [][(AtContentLine /\ IsUnwrapCloneLine(filename, hunks[hidx].content[lidx]))
        => /\ issues'[self] = issues[self] \o NewFindings
           /\ Len(NewFindings) = 2
           /\ NewFindings[1].file = filename /\ NewFindings[2].file = filename
           /\ NewFindings[1].line = line_num /\ NewFindings[2].line = line_num
           /\ NewFindings[1].category = "best_practices"
           /\ NewFindings[2].category = "best_practices"
           /\ NewFindings[1].message # NewFindings[2].message]_vars

\* Such a line has just been passed and left its two findings.
C7_Witness ==
    /\ PastContentLine
    /\ IsUnwrapCloneLine(filename, hunks[hidx].content[lidx - 1])
    /\ Len(issues[self]) >= 2
    /\ issues[self][Len(issues[self])].code
           = Strip(DropFirst(hunks[hidx].content[lidx - 1], 1))

\* C8: no finding belongs to a file whose extension is not .rs or .go (in any
\* case); every header's file is counted in files_reviewed whatever its
\* language; and the diff with one .rs and one .py file gives a fresh
\* reviewer files_reviewed = 2 and exactly 2 findings, both of the .rs file.
C8_UncataloguedFilesYieldNothing ==
    /\ \A r \in 1..Len(issues) : \A k \in 1..Len(issues[r]) :
           HasCatalogExtension(issues[r][k].file)
    /\ \A i \in 1..Len(results) :
           results[i].value = "result"
               => results[i].files_reviewed = Cardinality(HeaderNames(TextLines))
    /\ (diff_file.text = Join(RustAndPython))
           => \A i \in 1..Len(results) :
                  RanOnce(results[i].reviewer)
                      => /\ results[i].files_reviewed = 2
                         /\ Len(issues[results[i].reviewer]) = 2
                         /\ \A k \in 1..2 : issues[results[i].reviewer][k].file = "x.rs"

\* The .rs and .py diff has been reviewed by a fresh reviewer.
C8_Witness ==
    /\ diff_file.text = Join(RustAndPython)
    /\ \E i \in 1..Len(results) :
           /\ RanOnce(results[i].reviewer)
           /\ results[i].files_reviewed = 2
           /\ Len(issues[results[i].reviewer]) = 2
    /\ LET L == TextLines
       IN  \E p \in 1..Len(L) :
               /\ StartsWith(L[p], "+")
               /\ Governing(L, p) > 0 /\ detect_language(NameAt(L, p)) = "python"
               /\ Contains(L[p], ".unwrap()")

RECURSIVE Repeated(_, _)
Repeated(seq, n) == IF n = 0 THEN <<>> ELSE seq \o Repeated(seq, n - 1)

\* C9: what a review() call appends to the issues is the matches of the text
\* in discovery order: by the first header of the file, then the hunk, then
\* the content line, then the rule in catalog order.  So the issues of a
\* result are that sequence, once for every call made on its reviewer (once
\* for a reviewer that has run once), and nothing re-sorts them.
C9_DiscoveryOrder ==
    \A i \in 1..Len(results) :
        (results[i].value = "result" /\ self # results[i].reviewer)
            => Observed(results[i].reviewer)
                   = Repeated(ExpectedOrder(TextLines), RunsOn(results[i].reviewer))

\* A result whose findings are not in the order of their lines in the text:
\* the first belongs to a file whose base name has a second header after
\* another file's findings.
C9_Witness ==
    \E i \in 1..Len(results) :
        /\ results[i].value = "result" /\ RanOnce(results[i].reviewer)
        /\ LET found == issues[results[i].reviewer]
               L == TextLines
           IN  /\ Len(found) >= 2
               /\ found[1].file # found[Len(found)].file
               /\ \E p, q \in 1..Len(L) :
                      /\ p < q
                      /\ Live(L, p) /\ NameAt(L, p) = found[Len(found)].file
                      /\ Live(L, q) /\ NameAt(L, q) = found[1].file

\* The lines parse_diff has dealt with.
Parsed == 1..(idx - 1)

ParsedHeaders == {h \in Parsed : IsFileHeader(lines[h])}

\* The "@@" lines that opened a hunk under the last header of base name key.
HunksSinceLastHeader(key) ==
    LET last == Max({h \in ParsedHeaders : BaseName(lines[h]) = key})
    IN  {q \in Parsed : /\ q > last
                        /\ key # ""
                        /\ ~IsFileHeader(lines[q]) /\ IsHunkHeader(lines[q])
                        /\ \A h \in ParsedHeaders : h < q => h <= last}

\* C10: while parse_diff runs, files has one entry per distinct base name of
\* the headers seen, and an entry holds exactly the hunks opened since the
\* last header of its base name; a result counts the distinct base names;
\* and every finding comes from a hunk that follows the last header of its
\* file's base name.
C10_HeaderStartsEmptyEntry ==
    /\ pc = "parse_diff"
           => /\ {files[i].key : i \in 1..Len(files)}
                     = {BaseName(lines[h]) : h \in ParsedHeaders}
              /\ Len(files) = Cardinality({BaseName(lines[h]) : h \in ParsedHeaders})
              /\ \A i \in 1..Len(files) :
                     Len(files[i].hunks)
                         = Cardinality(HunksSinceLastHeader(files[i].key))
    /\ (results # <<>> /\ results[1].value = "result")
           => LET L == TextLines
              IN  \A i \in 1..Len(results) :
                      /\ results[i].files_reviewed = Cardinality(HeaderNames(L))
                      /\ results[i].files_reviewed <= Cardinality(HeaderPositions(L))
    /\ (pc \in {"review_loop", "hunk_loop", "line_loop", "idle"}
            /\ (\E r \in 1..Len(issues) : issues[r] # <<>>))
           => LET L == TextLines
              IN  \A r \in 1..Len(issues) : \A k \in 1..Len(issues[r]) :
                      \E p \in 1..Len(L) :
                          /\ Live(L, p)
                          /\ NameAt(L, p) = issues[r][k].file
                          /\ Strip(DropFirst(L[p], 1)) = issues[r][k].code

\* A header has just emptied an entry that held a hunk.
C10_Witness ==
    /\ pc = "parse_diff" /\ idx > 1
    /\ IsFileHeader(lines[idx - 1])
    /\ Get(files, current_file[1]) = <<>>
    /\ \E h \in ParsedHeaders :
           /\ h < idx - 1
           /\ BaseName(lines[h]) = current_file[1]
           /\ \E q \in (h + 1)..(idx - 2) :
                  IsHunkHeader(lines[q]) /\ Governing(lines, q) = h
    /\ Len(files) < Cardinality(ParsedHeaders)

====
